---- MODULE Spec2Model ----
(***************************************************************************)
(* State-machine model of SearchBoxComponent                               *)
(* (projects/tb-tsb-lib/src/lib/search-box/search-box.component.ts).       *)
(*                                                                         *)
(* The component's fields are the variables.  Every handler is an operator *)
(* from a record of all mutable fields (built by Cur) to such a record;    *)
(* an action applies one handler and commits the record.  JavaScript       *)
(* strings typed into the input are sequences of one-character strings;    *)
(* null and undefined are the strings "null" and "undefined".  The         *)
(* RepositoryService and the Angular/RxJS runtime are outside the          *)
(* component: the service is modelled from its contract, the runtime by    *)
(* what FormControl.valueChanges, debounceTime, distinctUntilChanged,      *)
(* switchMap and catchError do.  The enabled input (form.enable/disable)   *)
(* and startWithValue are left unbound.                                    *)
(***************************************************************************)
EXTENDS Naturals, Sequences, FiniteSets, TLC

VARIABLES
  cfg,                      \* the plain @Input properties (lines 40-71), fixed by the host
  env,                      \* what the host, the user and the service may do in this run
  svcConfig,                \* RepositoryService: the configured repositories
  _level, _allowEmptyRepository, _fixedRepository,
  noOneRepositoryError, dataFromRepo, listRepo, currentRepository,
  lastUsedRepositoryValue, lastPlaceholderValue, isSearching, isLoading,
  isEditingData, editingOccurenceId, placeholder,
  input,                    \* form.controls.input.value
  repoCtl,                  \* form.controls.repository.value
  subscribed,               \* subscription1/subscription2: "no", "yes", "closed"
  stream,                   \* subscription3: "none", "live", "dead" (completed), "closed"
  debounce,                 \* debounceTime: the value waiting for the quiet interval
  distinctLast,             \* distinctUntilChanged: the last value let through
  inner,                    \* switchMap: generation of the subscribed inner lookup, 0 if none
  inflight,                 \* primary lookups issued and not yet answered
  pendingValid,             \* secondary (getValidOccurence) lookups not yet answered
  reqCounter,               \* number of primary lookups issued so far
  latest,                   \* generation issued by the latest classification, 0 if it issued none
  out,                      \* host emissions of the last handler, in order
  thrown,                   \* exception the last handler ended with
  recDepth,                 \* deepest setRepository recursion of the last handler
  op,                       \* the last handler and what it was given
  history,                  \* in the runs that record it, each handler run so far and
                            \* the repository ids it emitted on selectedRepository
  typed                     \* in the runs that limit them, the input changes so far

vars == << cfg, env, svcConfig, _level, _allowEmptyRepository, _fixedRepository,
           noOneRepositoryError, dataFromRepo, listRepo, currentRepository,
           lastUsedRepositoryValue, lastPlaceholderValue, isSearching, isLoading,
           isEditingData, editingOccurenceId, placeholder, input, repoCtl,
           subscribed, stream, debounce, distinctLast, inner, inflight,
           pendingValid, reqCounter, latest, out, thrown, recDepth, op, history, typed >>

----------------------------------------------------------------------------
(* Bounds of the model *)

\* primary lookups that may be issued in one run
MaxReq == 2
\* candidates a lookup may return
MaxResults == 1
\* call-stack frames available to setRepository before the engine gives up
MaxStack == 3
\* entries the catalog may grow to (a failing catalog lookup keeps the old list)
MaxList == 4
\* secondary lookups that may be outstanding at once
MaxPending == 1
\* handler runs a recorded history may hold
MaxHistory == 3
\* input changes the user makes in a run that limits them
MaxTyped == 3

----------------------------------------------------------------------------
(* Values *)

Null == "null"
Undefined == "undefined"
NoError == "none"

isDefined(v) == v # Null /\ v # Undefined

OtherUnknown == "otherunknown"

Str(s) == [t |-> "string", s |-> s]
NoValue == [t |-> "none"]
EmptyText == << >>

\* value.replace(/ /g, '')
RECURSIVE RemoveSpaces(_)
RemoveSpaces(s) ==
  IF s = << >> THEN << >>
  ELSE IF Head(s) = " " THEN RemoveSpaces(Tail(s))
       ELSE << Head(s) >> \o RemoveSpaces(Tail(s))

\* the test of line 175 without the replace
IsEmptyString(s) == s = << >>

IsBlank(s) == RemoveSpaces(s) = << >>

NullOcc == [kind |-> Null, repository |-> Null]

\* a candidate as the primary lookup returns it: kind is "plain" (not a synonym),
\* "syn" (synonym, no valid form attached) or "synV" (synonym, valid form attached)
Candidate(gen, idx, repo, kind) ==
  [ t |-> "object", oid |-> << gen, idx >>, from |-> repo,
    occurenceId |-> Null, repository |-> repo,
    isSynonym |-> (kind # "plain"),
    validOccurence |-> IF kind = "synV" THEN [kind |-> "source", repository |-> repo]
                       ELSE NullOcc ]

Kinds == {"plain", "syn", "synV"}

----------------------------------------------------------------------------
(* RepositoryService, from its contract *)

Bdtfx == [id |-> "bdtfx", levels |-> {"idiotaxon"}]
Taxref == [id |-> "taxref", levels |-> {"idiotaxon"}]
Baseveg == [id |-> "baseveg", levels |-> {"synusy", "microcenosis"}]

KnownLevels == {"idiotaxon", "synusy", "microcenosis"}

\* getRepoAccordingToLevel: the repositories of a level, in configuration order;
\* fails for a level that is not known
getRepoAccordingToLevel(config, level) ==
  IF level \notin KnownLevels THEN [throws |-> TRUE, list |-> << >>]
  ELSE LET keep == SelectSeq(config, LAMBDA r : level \in r.levels)
       IN [throws |-> FALSE, list |-> [i \in DOMAIN keep |-> keep[i].id]]

\* findDataFromRepo: what a lookup issued against repo may answer
RECURSIVE ResultLists(_, _, _, _)
ResultLists(gen, repo, n, kinds) ==
  IF n = 0 THEN { << >> }
  ELSE LET shorter == ResultLists(gen, repo, n - 1, kinds)
       IN shorter \cup { Append(r, Candidate(gen, n, repo, k)) :
                           r \in { x \in shorter : Len(x) = n - 1 }, k \in kinds }

\* standardizeValidOccurence: the valid form, as the service standardizes it
standardizeValidOccurence(repo) == [kind |-> "fetched", repository |-> Null]

----------------------------------------------------------------------------
(* The record the handlers work on *)

Cur ==
  [ cfg |-> cfg, svcConfig |-> svcConfig, _level |-> _level,
    _allowEmptyRepository |-> _allowEmptyRepository,
    _fixedRepository |-> _fixedRepository,
    noOneRepositoryError |-> noOneRepositoryError, dataFromRepo |-> dataFromRepo,
    listRepo |-> listRepo, currentRepository |-> currentRepository,
    lastUsedRepositoryValue |-> lastUsedRepositoryValue,
    lastPlaceholderValue |-> lastPlaceholderValue, isSearching |-> isSearching,
    isLoading |-> isLoading, isEditingData |-> isEditingData,
    editingOccurenceId |-> editingOccurenceId, placeholder |-> placeholder,
    input |-> input, repoCtl |-> repoCtl, subscribed |-> subscribed,
    stream |-> stream, debounce |-> debounce, distinctLast |-> distinctLast,
    inner |-> inner, inflight |-> inflight, pendingValid |-> pendingValid,
    reqCounter |-> reqCounter, latest |-> latest,
    out |-> << >>, thrown |-> NoError, recDepth |-> 0 ]

Commit(w) ==
  /\ cfg' = w.cfg
  /\ env' = env
  /\ svcConfig' = w.svcConfig
  /\ _level' = w._level
  /\ _allowEmptyRepository' = w._allowEmptyRepository
  /\ _fixedRepository' = w._fixedRepository
  /\ noOneRepositoryError' = w.noOneRepositoryError
  /\ dataFromRepo' = w.dataFromRepo
  /\ listRepo' = w.listRepo
  /\ currentRepository' = w.currentRepository
  /\ lastUsedRepositoryValue' = w.lastUsedRepositoryValue
  /\ lastPlaceholderValue' = w.lastPlaceholderValue
  /\ isSearching' = w.isSearching
  /\ isLoading' = w.isLoading
  /\ isEditingData' = w.isEditingData
  /\ editingOccurenceId' = w.editingOccurenceId
  /\ placeholder' = w.placeholder
  /\ input' = w.input
  /\ repoCtl' = w.repoCtl
  /\ subscribed' = w.subscribed
  /\ stream' = w.stream
  /\ debounce' = w.debounce
  /\ distinctLast' = w.distinctLast
  /\ inner' = w.inner
  /\ inflight' = w.inflight
  /\ pendingValid' = w.pendingValid
  /\ reqCounter' = w.reqCounter
  /\ latest' = w.latest
  /\ out' = w.out
  /\ thrown' = w.thrown
  /\ recDepth' = w.recDepth

\* what the host can observe of the component at the moment of an emission
Snap(w) ==
  [ isEditingData |-> w.isEditingData, editingOccurenceId |-> w.editingOccurenceId,
    currentRepository |-> w.currentRepository, placeholder |-> w.placeholder,
    input |-> w.input ]

\* EventEmitter.next
Emit(w, ev, data) ==
  [w EXCEPT !.out = Append(@, [ev |-> ev, data |-> data, snap |-> Snap(w)])]

Ok(w) == w.thrown = NoError

----------------------------------------------------------------------------
(* Form controls *)

\* resetInput
resetInput(w) ==
  IF w.isEditingData THEN w ELSE [w EXCEPT !.input = Str(EmptyText)]

\* subscription1 emptying the buffer during an edit session too
subscription1Clearing(w, repoValue) ==
  LET w1 == [w EXCEPT !.currentRepository = repoValue]
  IN Emit([resetInput(w1) EXCEPT !.dataFromRepo = << >>], "selectedRepository",
          repoValue)

\* subscription1: the repository control's valueChanges
subscription1(w, repoValue) ==
  LET w1 == [w EXCEPT !.currentRepository = repoValue]
      w2 == IF ~w1.isEditingData
            THEN [resetInput(w1) EXCEPT !.dataFromRepo = << >>]
            ELSE w1
  IN Emit(w2, "selectedRepository", repoValue)

\* form.controls.repository.setValue(v, {emitEvent})
repositorySetValue(w, v, emitEvent) ==
  LET w1 == [w EXCEPT !.repoCtl = v]
  IN IF emitEvent /\ w1.subscribed = "yes" THEN subscription1(w1, v) ELSE w1

\* the input control's valueChanges: subscription2, then the head of subscription3
\* (debounceTime restarts its timer with the new value)
inputValueChanges(w, v) ==
  IF w.subscribed = "yes"
  THEN [w EXCEPT !.isSearching = TRUE,
                 !.debounce = IF w.stream = "live" THEN v ELSE @]
  ELSE w

----------------------------------------------------------------------------
(* Repository catalog *)

\* setRepository; depth counts the nested calls
RECURSIVE setRepository(_, _, _)
setRepository(w, repository, depth) ==
  IF depth > MaxStack THEN [w EXCEPT !.thrown = "RangeError", !.recDepth = depth]
  ELSE
    LET foundedRepository == \E i \in DOMAIN w.listRepo : w.listRepo[i] = repository
        wd == [w EXCEPT !.recDepth = IF depth > @ THEN depth ELSE @]
    IN IF foundedRepository
       THEN repositorySetValue([wd EXCEPT !.currentRepository = repository],
                               repository, FALSE)
       ELSE IF wd._allowEmptyRepository
            THEN setRepository(wd, OtherUnknown, depth + 1)
            ELSE IF Len(wd.listRepo) > 0
                 THEN setRepository(wd, wd.listRepo[1], depth + 1)
                 ELSE [wd EXCEPT !.noOneRepositoryError = TRUE]

\* initRepo, lines 364-372: the forEach that looks for the default repository
RECURSIVE SetDefaultFrom(_, _)
SetDefaultFrom(w, i) ==
  IF i > Len(w.listRepo) THEN w
  ELSE IF w.listRepo[i] = w.cfg.defaultRepository
       THEN LET w1 == [w EXCEPT !.currentRepository = w.cfg.defaultRepository]
                w2 == repositorySetValue(w1, w.cfg.defaultRepository, TRUE)
                w3 == Emit(w2, "selectedRepository", w.cfg.defaultRepository)
            IN SetDefaultFrom(w3, i + 1)
       ELSE SetDefaultFrom(w, i + 1)

\* initRepo, lines 374-381: the fallback to the first repository
FirstAvailable(w) ==
  IF Len(w.listRepo) = 0 THEN [w EXCEPT !.thrown = "TypeError"]
  ELSE LET w1 == [w EXCEPT !.currentRepository = w.listRepo[1]]
           w2 == repositorySetValue(w1, w1.currentRepository, TRUE)
       IN Emit(w2, "selectedRepository", w2.currentRepository)

\* initRepo, lines 383-400: the forced repository
ForceFixed(w) ==
  IF w._fixedRepository # Undefined
  THEN LET foundedRepository ==
             \E i \in DOMAIN w.listRepo : w.listRepo[i] = w._fixedRepository
           w1 == IF ~foundedRepository
                 THEN [w EXCEPT !.noOneRepositoryError = TRUE] ELSE w
           w2 == [w1 EXCEPT !.currentRepository = w._fixedRepository]
       IN repositorySetValue(w2, w._fixedRepository, TRUE)
  ELSE w

initRepo(w) ==
  LET w1 == [w EXCEPT !.noOneRepositoryError = FALSE]
      got == getRepoAccordingToLevel(w1.svcConfig, w1._level)
      w2 == IF got.throws THEN [w1 EXCEPT !.noOneRepositoryError = TRUE]
            ELSE [w1 EXCEPT !.listRepo = got.list]
      w3 == IF w2._allowEmptyRepository
            THEN [w2 EXCEPT !.listRepo = Append(@, OtherUnknown)] ELSE w2
      defaultRepoHasBeenSet ==
        \E i \in DOMAIN w3.listRepo : w3.listRepo[i] = w3.cfg.defaultRepository
      w4 == SetDefaultFrom(w3, 1)
      w5 == IF defaultRepoHasBeenSet = FALSE THEN FirstAvailable(w4) ELSE w4
  IN IF Ok(w5) THEN ForceFixed(w5) ELSE w5

----------------------------------------------------------------------------
(* Edit session *)

\* stopEditingTaxo
stopEditingTaxo(w) ==
  LET w1 == [w EXCEPT !.isEditingData = FALSE, !.editingOccurenceId = Null,
                      !.placeholder = w.lastPlaceholderValue]
      w2 == IF w1.cfg.restoreRepositoryValueAfterEditing
            THEN setRepository(w1, w1.lastUsedRepositoryValue, 0) ELSE w1
  IN IF Ok(w2) THEN [w2 EXCEPT !.dataFromRepo = << >>] ELSE w2

\* cancelEditingTaxo
cancelEditingTaxo(w) ==
  LET w1 == Emit(w, "cancelUpdateData", w.editingOccurenceId)
      w2 == stopEditingTaxo(w1)
  IN IF Ok(w2) THEN resetInput(w2) ELSE w2

\* line 520: name, and the author after a space when there is one
EditText(value) ==
  IF value.name # EmptyText
  THEN value.name \o (IF value.author # EmptyText THEN << " " >> \o value.author
                      ELSE << >>)
  ELSE EmptyText

\* startEditingTaxo, lines 512-524: after an edit in progress has been cancelled
BeginEdit(w, value) ==
  LET w1 == [w EXCEPT !.isEditingData = TRUE,
                      !.editingOccurenceId = value.occurenceId,
                      !.lastPlaceholderValue = w.placeholder,
                      !.placeholder = w.cfg.editingPlaceholder,
                      !.lastUsedRepositoryValue = w.currentRepository]
      w2 == setRepository(w1, value.repository, 0)
      w3 == [w2 EXCEPT !.input = Str(EditText(value))]
  IN IF ~Ok(w2) THEN w2
     ELSE IF w3.cfg.startSearchAtEdit THEN inputValueChanges(w3, w3.input) ELSE w3

\* startEditingTaxo storing the new occurrence id before it cancels the old session
startEditingTaxoOverwriting(w, value) ==
  LET w1 == IF w.isEditingData
            THEN cancelEditingTaxo([w EXCEPT !.editingOccurenceId = value.occurenceId])
            ELSE w
  IN IF Ok(w1) THEN BeginEdit(w1, value) ELSE w1

startEditingTaxo(w, value) ==
  LET w1 == IF w.isEditingData THEN cancelEditingTaxo(w) ELSE w
  IN IF Ok(w1) THEN BeginEdit(w1, value) ELSE w1

\* resetComponent
resetComponent(w) ==
  LET w1 == IF w.isEditingData THEN stopEditingTaxo(w) ELSE w
      w2 == IF Ok(w1) THEN initRepo(w1) ELSE w1
  IN IF Ok(w2) THEN [w2 EXCEPT !.input = Str(EmptyText)] ELSE w2

----------------------------------------------------------------------------
(* Finalization of a candidate *)

SameObject(a, b) == a.t = "object" /\ b.t = "object" /\ a.oid = b.oid

\* a write to a field of candidate object o, seen through every reference to it
Store(w, o) ==
  [w EXCEPT
     !.dataFromRepo = [i \in DOMAIN @ |-> IF SameObject(@[i], o) THEN o ELSE @[i]],
     !.input = IF SameObject(@, o) THEN o ELSE @,
     !.debounce = IF SameObject(@, o) THEN o ELSE @,
     !.pendingValid = [i \in DOMAIN @ |->
                         IF SameObject(@[i].data, o) THEN [@[i] EXCEPT !.data = o]
                         ELSE @[i]]]

\* repositoryService.getValidOccurence(data.repository, ...).subscribe(...)
getValidOccurence(w, data, ev) ==
  [w EXCEPT !.pendingValid =
              Append(@, [ev |-> ev, data |-> data, repository |-> data.repository,
                         session |-> w.editingOccurenceId,
                         current |-> w.currentRepository])]

\* lines 248-251 and 264-267: the secondary lookup's subscriber
ValidOccurenceResult(w, p) ==
  LET validOcc == [standardizeValidOccurence(p.data.repository)
                     EXCEPT !.repository = p.data.repository]
      data == [p.data EXCEPT !.validOccurence = validOcc]
  IN Emit(Store(w, data), p.ev, data)

\* data.validOccurence = Object.assign({}, data)
SelfCopy(data) ==
  [data EXCEPT !.validOccurence = [kind |-> "copy", repository |-> data.repository]]

\* checkAndEmitNewData emitting a synonym as it is
checkAndEmitNewDataUnresolved(w, data) ==
  IF data.isSynonym THEN Emit(w, "newData", data)
  ELSE Emit(Store(w, SelfCopy(data)), "newData", SelfCopy(data))

checkAndEmitNewData(w, data) ==
  IF data.isSynonym /\ ~isDefined(data.validOccurence.kind)
  THEN getValidOccurence(w, data, "newData")
  ELSE IF data.isSynonym /\ isDefined(data.validOccurence.kind)
       THEN Emit(w, "newData", data)
       ELSE Emit(Store(w, SelfCopy(data)), "newData", SelfCopy(data))

checkAndEmitUpdatedData(w, data) ==
  IF data.isSynonym
  THEN getValidOccurence(w, data, "updatedData")
  ELSE Emit(Store(w, SelfCopy(data)), "updatedData", SelfCopy(data))

----------------------------------------------------------------------------
(* subscription3: debounceTime, distinctUntilChanged, switchMap, catchError *)

\* lines 222-228: a single result is selected for the user
AutoSelect(w) ==
  IF w.isEditingData
  THEN LET w1 == checkAndEmitUpdatedData(w, w.dataFromRepo[1])
       IN stopEditingTaxo(w1)
  ELSE checkAndEmitNewData(w, w.dataFromRepo[1])

\* the subscriber of the pipeline without the assignment of line 220
SubscriberLeavingLoading(w, results) ==
  LET w1 == [w EXCEPT !.dataFromRepo = results, !.isSearching = FALSE]
      w2 == IF w1.cfg.autoComplete /\ w1.cfg.autoSelectValueIfOnlyOneResult
               /\ Len(w1.dataFromRepo) = 1
            THEN AutoSelect(w1) ELSE w1
  IN IF ~Ok(w2) THEN [w2 EXCEPT !.stream = "dead", !.inner = 0, !.debounce = NoValue]
     ELSE IF ~w2.cfg.autoComplete
          THEN Emit([w2 EXCEPT !.dataFromRepo = << >>], "allResults", results)
          ELSE w2

\* lines 216-238: the subscriber of the pipeline
Subscriber(w, results) ==
  LET w1 == [w EXCEPT !.dataFromRepo = results, !.isLoading = FALSE,
                      !.isSearching = FALSE]
      w2 == IF w1.cfg.autoComplete /\ w1.cfg.autoSelectValueIfOnlyOneResult
               /\ Len(w1.dataFromRepo) = 1
            THEN AutoSelect(w1) ELSE w1
  IN IF ~Ok(w2) THEN [w2 EXCEPT !.stream = "dead", !.inner = 0, !.debounce = NoValue]
     ELSE IF ~w2.cfg.autoComplete
          THEN Emit([w2 EXCEPT !.dataFromRepo = << >>], "allResults", results)
          ELSE w2

\* line 215: catchError replaces the failed stream by of([]), which emits [] and
\* completes; the source is unsubscribed and the error callback never runs
StreamError(w) ==
  Subscriber([w EXCEPT !.stream = "dead", !.inner = 0, !.debounce = NoValue,
                       !.thrown = NoError], << >>)

\* lines 181-184: the primary lookup is issued
IssueLookup(w, text) ==
  LET gen == w.reqCounter + 1
  IN [w EXCEPT !.isLoading = TRUE, !.reqCounter = gen, !.inner = gen, !.latest = gen,
               !.inflight = @ \cup {[gen |-> gen, repository |-> w.currentRepository,
                                     text |-> text]}]

\* lines 188-207: the value is a selected candidate
SelectedObject(w, value) ==
  LET v1 == [value EXCEPT !.repository = w.currentRepository]
      w1 == Store(w, v1)
      w2 == IF ~w1.isEditingData
            THEN checkAndEmitNewData([w1 EXCEPT !.dataFromRepo = << >>], v1)
            ELSE LET v2 == [v1 EXCEPT !.occurenceId = w1.editingOccurenceId]
                     wa == [Store(w1, v2) EXCEPT !.dataFromRepo = << >>]
                     wb == checkAndEmitUpdatedData(wa, v2)
                 IN stopEditingTaxo(wb)
      w3 == [w2 EXCEPT !.dataFromRepo = << >>, !.isLoading = FALSE,
                       !.isSearching = FALSE]
  IN IF ~Ok(w2) THEN w2
     ELSE IF w3.cfg.autoResetWhenSelected THEN resetInput(w3) ELSE w3

\* lines 170-213: the switchMap projection, followed by what its result delivers
Project(w, value) ==
  LET w0 == [w EXCEPT !.inner = 0, !.latest = 0]
  IN IF value.t = "string" /\ w0.currentRepository # OtherUnknown
     THEN IF IsBlank(value.s)
          THEN Subscriber([w0 EXCEPT !.dataFromRepo = << >>], << >>)
          ELSE IssueLookup(w0, value.s)
     ELSE IF value.t = "object"
          THEN LET w1 == SelectedObject(w0, value)
               IN IF Ok(w1) THEN Subscriber(w1, << >>) ELSE StreamError(w1)
          ELSE Subscriber(w0, << >>)

\* distinctUntilChanged compares with ===: texts by content, objects by identity
SameValue(a, b) ==
  IF a.t = "object" /\ b.t = "object" THEN a.oid = b.oid
  ELSE a.t = b.t /\ a = b

DistinctKey(v) == IF v.t = "object" THEN [t |-> "object", oid |-> v.oid] ELSE v

\* the quiet interval of debounceTime(400) has passed
Debounced(w) ==
  LET v == w.debounce
      w1 == [w EXCEPT !.debounce = NoValue]
  IN IF SameValue(v, w.distinctLast) THEN w1
     ELSE Project([w1 EXCEPT !.distinctLast = DistinctKey(v)], v)

\* mergeMap in the place of switchMap: every response is delivered
DeliveredMerged(w, r) == w.stream = "live"

\* switchMap: a response is delivered only while its lookup is the subscribed one
Delivered(w, r) == w.stream = "live" /\ w.inner = r.gen

\* a primary lookup answers
LookupAnswers(w, r, results) ==
  LET w1 == [w EXCEPT !.inflight = @ \ {r}]
  IN IF Delivered(w, r) THEN Subscriber([w1 EXCEPT !.inner = 0], results) ELSE w1

\* a primary lookup fails
LookupFails(w, r) ==
  LET w1 == [w EXCEPT !.inflight = @ \ {r}]
  IN IF Delivered(w, r) THEN StreamError(w1) ELSE w1

----------------------------------------------------------------------------
(* keyDownEnter and onBlur *)

NullRecord == [t |-> Null]

FreeNewRecord(text) ==
  [ t |-> "object", occurenceId |-> Null, repository |-> OtherUnknown,
    idNomen |-> Null, idTaxo |-> Null, name |-> text, author |-> Null,
    isSynonym |-> FALSE, validOccurence |-> NullOcc ]

FreeUpdatedRecord(id, text) ==
  [ t |-> "object", occurenceId |-> id, repository |-> OtherUnknown,
    idTaxo |-> Null, idNomen |-> Null, name |-> text, author |-> Null ]

keyDownEnter(w) ==
  IF (w._allowEmptyRepository /\ w.currentRepository = OtherUnknown)
     \/ (w.currentRepository # OtherUnknown /\ w.cfg.allowFreeValueIfNoResults
         /\ Len(w.dataFromRepo) = 0)
  THEN IF w.input.t = "object" THEN w
       ELSE IF IsBlank(w.input.s) THEN Emit(w, "newData", NullRecord)
       ELSE LET w1 == [w EXCEPT !.dataFromRepo = << >>]
                w2 == IF w1.isEditingData
                      THEN stopEditingTaxo(
                             Emit(w1, "updatedData",
                                  FreeUpdatedRecord(w1.editingOccurenceId, w1.input.s)))
                      ELSE Emit(w1, "newData", FreeNewRecord(w1.input.s))
            IN IF ~Ok(w2) THEN w2
               ELSE IF w2.cfg.autoResetWhenSelected THEN resetInput(w2) ELSE w2
  ELSE w

onBlur(w) ==
  IF w.cfg.emitOccurenceOnBlur /\ ~w.isEditingData THEN keyDownEnter(w) ELSE w

----------------------------------------------------------------------------
(* Inputs *)

\* what the user may type
Texts == { << >>, << " " >>, << "r", "o" >>, << "r", "o", "s" >> }

\* values the host may bind to level and fixedRepository
Levels == {"idiotaxon", "synusy", "phytocenosis"}
FixedValues == {"bdtfx", "nowhere"}

\* records the host may hand to updateData
EditA ==
  [occurenceId |-> "occ1", repository |-> "bdtfx", name |-> << "r", "o" >>,
   author |-> << >>]
EditB ==
  [occurenceId |-> "occ2", repository |-> "nowhere", name |-> << "r", "o" >>,
   author |-> << "L" >>]
EditValues == {EditA, EditB}

AllRepositories == << Bdtfx, Taxref, Baseveg >>

\* the defaults of lines 40-71, with a repository list and a default repository
DefaultCfg ==
  [ tbRepositoriesConfig |-> AllRepositories,
    defaultRepository |-> "bdtfx",
    allowFreeValueIfNoResults |-> TRUE, autoComplete |-> TRUE,
    autoResetWhenSelected |-> TRUE, autoSelectValueIfOnlyOneResult |-> FALSE,
    placeholder |-> "", editingPlaceholder |-> "Modifier une donnee",
    startSearchAtEdit |-> FALSE, emitOccurenceOnBlur |-> FALSE,
    restoreRepositoryValueAfterEditing |-> FALSE ]

\* an environment in which nothing happens but construction, ngOnInit and ngOnDestroy
QuietEnv ==
  [ service |-> AllRepositories, levels |-> {}, allows |-> {}, fixeds |-> {},
    edits |-> {}, resets |-> FALSE, texts |-> {}, kinds |-> {}, picks |-> FALSE,
    enter |-> FALSE, failures |-> FALSE, again |-> FALSE, history |-> FALSE,
    limited |-> FALSE ]

\* the state after construction (lines 92-124) in one of the given runs
InitWith(runs) ==
  /\ \E run \in runs : cfg = run.cfg /\ env = run.env
  /\ svcConfig = env.service
  /\ _level = "idiotaxon"
  /\ _allowEmptyRepository = TRUE
  /\ _fixedRepository = Undefined
  /\ noOneRepositoryError = FALSE
  /\ dataFromRepo = << >>
  /\ listRepo = << "" >>
  /\ currentRepository = Undefined
  /\ lastUsedRepositoryValue = Undefined
  /\ lastPlaceholderValue = Undefined
  /\ isSearching = FALSE
  /\ isLoading = FALSE
  /\ isEditingData = FALSE
  /\ editingOccurenceId = Undefined
  /\ placeholder = cfg.placeholder
  /\ input = Str(EmptyText)
  /\ repoCtl = ""
  /\ subscribed = "no"
  /\ stream = "none"
  /\ debounce = NoValue
  /\ distinctLast = NoValue
  /\ inner = 0
  /\ inflight = {}
  /\ pendingValid = << >>
  /\ reqCounter = 0
  /\ latest = 0
  /\ out = << >>
  /\ thrown = NoError
  /\ recDepth = 0
  /\ op = [name |-> "constructor"]
  /\ history = << >>
  /\ typed = 0

----------------------------------------------------------------------------
(* Actions *)

Within(w) ==
  /\ w.reqCounter <= MaxReq
  /\ Len(w.pendingValid) <= MaxPending
  /\ Len(w.listRepo) <= MaxList

\* the repository ids a handler emitted on selectedRepository, in order
Selected(emissions) ==
  LET sel == SelectSeq(emissions, LAMBDA e : e.ev = "selectedRepository")
  IN [i \in DOMAIN sel |-> sel[i].data]

Step(w, o) ==
  /\ Within(w)
  /\ Commit(w)
  /\ op' = o
  /\ IF env.history
     THEN /\ Len(history) < MaxHistory
          /\ history' = Append(history, [name |-> o.name, selected |-> Selected(w.out)])
     ELSE history' = history
  /\ typed' = IF env.limited /\ o.name = "type" THEN typed + 1 ELSE typed

Alive == subscribed \in {"no", "yes", "failed"}

\* @Input() set level
SetLevel ==
  \E value \in env.levels :
    /\ Alive
    /\ Step(initRepo([Cur EXCEPT !._level = value]), [name |-> "level"])

\* @Input() set allowEmptyRepository
SetAllowEmptyRepository ==
  \E value \in env.allows :
    /\ Alive
    /\ Step(initRepo([Cur EXCEPT !._allowEmptyRepository = value]),
            [name |-> "allowEmptyRepository"])

\* @Input() set fixedRepository; disabling the control emits its value
SetFixedRepository ==
  \E value \in env.fixeds :
    /\ Alive
    /\ LET w == [Cur EXCEPT !._fixedRepository = value]
       IN Step(IF w.subscribed = "yes" THEN subscription1(w, w.repoCtl) ELSE w,
               [name |-> "fixedRepository"])

\* ngOnInit
NgOnInit ==
  /\ subscribed = "no"
  /\ LET w == initRepo([Cur EXCEPT !.svcConfig = cfg.tbRepositoriesConfig])
     IN Step(IF Ok(w) THEN [w EXCEPT !.subscribed = "yes", !.stream = "live"]
             ELSE [w EXCEPT !.subscribed = "failed"],
             [name |-> "ngOnInit"])

\* @Input() set updateData
UpdateData ==
  \E value \in env.edits :
    /\ Alive
    /\ Step(startEditingTaxo(Cur, value),
            [name |-> "updateData", value |-> value, before |-> Snap(Cur)])

\* the cancel control of an edit session
CancelEditing ==
  /\ Alive
  /\ isEditingData
  /\ Step(cancelEditingTaxo(Cur), [name |-> "cancelEditingTaxo"])

\* @Input() set reset
Reset ==
  /\ Alive
  /\ env.resets
  /\ Step(resetComponent(Cur), [name |-> "reset"])

\* the user edits the text of the input
UserTypes ==
  \E text \in env.texts :
    /\ subscribed = "yes"
    /\ input # Str(text)
    /\ env.limited => (typed < MaxTyped /\ reqCounter < MaxReq)
    /\ Step(inputValueChanges([Cur EXCEPT !.input = Str(text)], Str(text)),
            [name |-> "type"])

\* the user picks a candidate in the autocomplete panel
UserSelects ==
  \E i \in DOMAIN dataFromRepo :
    /\ subscribed = "yes"
    /\ Step(inputValueChanges([Cur EXCEPT !.input = dataFromRepo[i]], dataFromRepo[i]),
            [name |-> "select"])

\* the input control is given once more the candidate it holds
InputSetAgain ==
  /\ subscribed = "yes"
  /\ env.again
  /\ input.t = "object"
  /\ debounce = NoValue
  /\ Step(inputValueChanges(Cur, input), [name |-> "again"])

\* the user picks a repository in the repository control
UserPicksRepository ==
  \E i \in DOMAIN listRepo :
    /\ subscribed = "yes"
    /\ env.picks
    /\ _fixedRepository = Undefined
    /\ listRepo[i] # repoCtl
    /\ Step(repositorySetValue(Cur, listRepo[i], TRUE),
            [name |-> "repository", value |-> listRepo[i], before |-> Snap(Cur)])

\* debounceTime lets the waiting value through
DebounceElapses ==
  /\ stream = "live"
  /\ debounce # NoValue
  /\ Step(Debounced(Cur),
          [name |-> "debounced", value |-> debounce,
           dropped |-> SameValue(debounce, distinctLast), before |-> Snap(Cur)])

\* findDataFromRepo answers
PrimaryResponse ==
  \E r \in inflight :
    \E results \in ResultLists(r.gen, r.repository, MaxResults, env.kinds) :
      Step(LookupAnswers(Cur, r, results),
           [name |-> "primaryResponse", gen |-> r.gen, before |-> Snap(Cur)])

\* findDataFromRepo fails
PrimaryFailure ==
  \E r \in inflight :
    /\ env.failures
    /\ Step(LookupFails(Cur, r),
            [name |-> "primaryFailure", gen |-> r.gen,
             current |-> (stream = "live" /\ inner = r.gen)])

RemoveAt(seq, i) ==
  [j \in 1 .. (Len(seq) - 1) |-> IF j < i THEN seq[j] ELSE seq[j + 1]]

\* getValidOccurence answers
SecondaryResponse ==
  \E i \in DOMAIN pendingValid :
    Step(ValidOccurenceResult([Cur EXCEPT !.pendingValid = RemoveAt(@, i)],
                              pendingValid[i]),
         [name |-> "secondaryResponse", request |-> pendingValid[i]])

\* getValidOccurence fails: its subscriber has no error callback
SecondaryFailure ==
  \E i \in DOMAIN pendingValid :
    /\ env.failures
    /\ Step([Cur EXCEPT !.pendingValid = RemoveAt(@, i)],
            [name |-> "secondaryFailure"])

\* (keydown.enter) on the input
KeyDownEnter ==
  /\ subscribed = "yes"
  /\ env.enter
  /\ Step(keyDownEnter(Cur),
          [name |-> "keyDownEnter", before |-> Snap(Cur),
           empty |-> (dataFromRepo = << >>)])

\* (blur) on the input
OnBlur ==
  /\ subscribed = "yes"
  /\ env.enter
  /\ Step(onBlur(Cur),
          [name |-> "onBlur", before |-> Snap(Cur), empty |-> (dataFromRepo = << >>)])

\* ngOnDestroy
NgOnDestroy ==
  /\ Alive
  /\ Step([Cur EXCEPT !.subscribed = "closed",
                      !.stream = IF @ = "none" THEN @ ELSE "closed",
                      !.debounce = NoValue, !.inner = 0],
          [name |-> "ngOnDestroy"])

Next ==
  \/ SetLevel
  \/ SetAllowEmptyRepository
  \/ SetFixedRepository
  \/ NgOnInit
  \/ UpdateData
  \/ CancelEditing
  \/ Reset
  \/ UserTypes
  \/ UserSelects
  \/ InputSetAgain
  \/ UserPicksRepository
  \/ DebounceElapses
  \/ PrimaryResponse
  \/ PrimaryFailure
  \/ SecondaryResponse
  \/ SecondaryFailure
  \/ KeyDownEnter
  \/ OnBlur
  \/ NgOnDestroy

----------------------------------------------------------------------------
(* Runs *)

\* typing and repository picking against lookups that answer late, fail or
\* are superseded
SearchRuns ==
  { [cfg |-> DefaultCfg,
     env |-> [QuietEnv EXCEPT !.texts = {<< " " >>, << "r", "o" >>, << "r", "o", "s" >>},
                              !.kinds = {"plain"}, !.picks = TRUE,
                              !.failures = TRUE]] }

\* a candidate is finalized inside and outside an edit session: one of any kind
\* selected by the user, or one without a valid form selected automatically
FinalizeRuns ==
  { [cfg |-> [DefaultCfg EXCEPT !.autoSelectValueIfOnlyOneResult = auto],
     env |-> [QuietEnv EXCEPT !.texts = {<< "r", "o" >>},
                              !.kinds = IF auto THEN {"plain", "syn"} ELSE Kinds,
                              !.edits = {EditA}, !.failures = TRUE]] :
    auto \in BOOLEAN }

\* edit sessions started over one another, cancelled and restored
SessionRuns ==
  { [cfg |-> [DefaultCfg EXCEPT !.restoreRepositoryValueAfterEditing = restore,
                                !.startSearchAtEdit = ~restore],
     env |-> [QuietEnv EXCEPT !.texts = {<< "r", "o" >>}, !.kinds = {"plain"},
                              !.edits = EditValues]] :
    restore \in BOOLEAN }

\* the host binds level, allowEmptyRepository, fixedRepository and updateData
\* in any order, before and after ngOnInit
CatalogRuns ==
  { [cfg |-> [DefaultCfg EXCEPT !.tbRepositoriesConfig = config,
                                !.defaultRepository = default],
     env |-> [QuietEnv EXCEPT !.service = config, !.levels = Levels,
                              !.allows = BOOLEAN, !.fixeds = FixedValues,
                              !.edits = {EditB}, !.resets = TRUE]] :
    config \in {<< >>, AllRepositories}, default \in {"", "taxref"} }

\* free text committed with the Enter key or on blur
EnterRuns ==
  { [cfg |-> [DefaultCfg EXCEPT !.emitOccurenceOnBlur = TRUE,
                                !.defaultRepository = default],
     env |-> [QuietEnv EXCEPT !.texts = {<< " " >>, << "r", "o" >>},
                              !.kinds = {"plain"}, !.enter = TRUE,
                              !.edits = {EditA}]] :
    default \in {"bdtfx", OtherUnknown} }

\* free text committed while the host forces the repository 'otherunknown' and
\* disallows free entry
ForcedEnterRuns ==
  { [cfg |-> DefaultCfg,
     env |-> [QuietEnv EXCEPT !.texts = {<< "r", "o" >>}, !.kinds = {"plain"},
                              !.enter = TRUE, !.allows = {FALSE},
                              !.fixeds = {OtherUnknown}]] }

\* a selected candidate stays in the input and is committed again
RecommitRuns ==
  { [cfg |-> [DefaultCfg EXCEPT !.autoResetWhenSelected = FALSE],
     env |-> [QuietEnv EXCEPT !.texts = {<< "r", "o" >>}, !.kinds = {"plain"},
                              !.again = TRUE]] }

\* the host binds level and allowEmptyRepository, then ngOnInit runs, with one
\* repository configured; the service may or may not hold the configuration
\* before ngOnInit hands it over
StartupRuns ==
  { [cfg |-> [DefaultCfg EXCEPT !.tbRepositoriesConfig = << Bdtfx >>],
     env |-> [QuietEnv EXCEPT !.service = service, !.levels = {"idiotaxon"},
                              !.allows = {TRUE}, !.history = TRUE]] :
    service \in {<< >>, << Bdtfx >>} }

\* the user changes the text a limited number of times, every change can be
\* looked up, and lookups answer or fail
LimitedRuns ==
  { [cfg |-> DefaultCfg,
     env |-> [QuietEnv EXCEPT !.texts = {<< "r", "o" >>, << "r", "o", "s" >>},
                              !.kinds = {"plain"}, !.failures = TRUE,
                              !.limited = TRUE]] }

\* the user picks repositories inside and outside an edit session
PickerRuns ==
  { [cfg |-> DefaultCfg,
     env |-> [QuietEnv EXCEPT !.texts = {<< "r", "o" >>}, !.kinds = {"plain"},
                              !.edits = {EditA}, !.picks = TRUE]] }

\* an edit session is started and cancelled while the host forces a repository
\* that the catalog does not have, the repository being restored afterwards
RestoreRuns ==
  { [cfg |-> [DefaultCfg EXCEPT !.restoreRepositoryValueAfterEditing = TRUE],
     env |-> [QuietEnv EXCEPT !.fixeds = {"nowhere"}, !.edits = {EditA}]] }

Init ==
  InitWith(SearchRuns \cup FinalizeRuns \cup SessionRuns \cup CatalogRuns
           \cup EnterRuns \cup ForcedEnterRuns \cup RecommitRuns
           \cup StartupRuns \cup PickerRuns \cup RestoreRuns)

Spec == Init /\ [][Next]_vars

\* the pipeline alone, with the timer of debounceTime firing and every primary
\* lookup answering or failing
LiveInit == InitWith(LimitedRuns)

LiveNext ==
  \/ NgOnInit
  \/ UserTypes
  \/ DebounceElapses
  \/ PrimaryResponse
  \/ PrimaryFailure

LiveSpec ==
  /\ LiveInit
  /\ [][LiveNext]_vars
  /\ WF_vars(NgOnInit)
  /\ WF_vars(DebounceElapses)
  /\ WF_vars(PrimaryResponse \/ PrimaryFailure)

----------------------------------------------------------------------------
(* Properties *)

\* the emissions of the last handler that carry a candidate record
CandidateEmissions(ev) ==
  { i \in DOMAIN out : out[i].ev = ev /\ "oid" \in DOMAIN out[i].data }

CancelEmissions == { i \in DOMAIN out : out[i].ev = "cancelUpdateData" }

\* C1: the answer (results or failure) of a primary lookup that is not the one
\* issued by the latest classification of a debounced value changes neither the
\* candidate buffer nor the flags and produces no emission
C1_Supersession ==
  [][\A r \in inflight :
       (r \notin inflight' /\ r.gen # latest)
         => /\ dataFromRepo' = dataFromRepo
            /\ isLoading' = isLoading
            /\ isSearching' = isSearching
            /\ out' = << >>]_vars

\* the first lookup answers last, when the results of the second are in the buffer
C1_Witness ==
  /\ op.name = "primaryResponse"
  /\ op.gen = 1
  /\ latest = 2
  /\ Len(dataFromRepo) > 0
  /\ dataFromRepo[1].oid[1] = 2

\* C2: no primary lookup is issued with a text that is empty once its spaces are
\* removed, nor against 'otherunknown'; classifying such a text leaves the buffer
\* empty, isLoading false and no lookup issued
C2_NoBlankLookup ==
  /\ \A r \in inflight :
       RemoveSpaces(r.text) # << >> /\ r.repository # OtherUnknown
  /\ (op.name = "debounced" /\ ~op.dropped /\ op.value.t = "string"
      /\ RemoveSpaces(op.value.s) = << >>)
       => (dataFromRepo = << >> /\ ~isLoading /\ latest = 0)

\* a text of one space is classified while a structured repository is selected
C2_Witness ==
  /\ op.name = "debounced"
  /\ ~op.dropped
  /\ op.value = Str(<< " " >>)
  /\ op.before.currentRepository = "bdtfx"
  /\ reqCounter > 0

\* C3: when the subscribed primary lookup fails, the buffer is empty, isLoading
\* and isSearching are false and httpError is emitted
C3_FailureReported ==
  (op.name = "primaryFailure" /\ op.current)
    => /\ dataFromRepo = << >>
       /\ ~isLoading
       /\ ~isSearching
       /\ \E i \in DOMAIN out : out[i].ev = "httpError"

\* C4: startEditingTaxo during an edit session emits exactly one cancelUpdateData,
\* as its first emission, carrying the old occurrence id, while the session state
\* is still the old one
C4_CancelBeforeStart ==
  (op.name = "updateData" /\ op.before.isEditingData)
    => /\ Cardinality(CancelEmissions) = 1
       /\ out[1].ev = "cancelUpdateData"
       /\ out[1].data = op.before.editingOccurenceId
       /\ out[1].snap = op.before

\* a session for occ2 has been started over the session for occ1
C4_Witness ==
  /\ op.name = "updateData"
  /\ op.before.isEditingData
  /\ op.before.editingOccurenceId = "occ1"
  /\ isEditingData
  /\ editingOccurenceId = "occ2"

\* C5: a candidate is emitted on updatedData while the edit session is still active
C5_EmitThenStop ==
  \A i \in CandidateEmissions("updatedData") :
    out[i].snap.isEditingData /\ isDefined(out[i].snap.editingOccurenceId)

\* the session and the repository a record emitted on updatedData was finalized in
SessionOf(i) ==
  IF op.name = "secondaryResponse" THEN op.request.session
  ELSE out[i].snap.editingOccurenceId

RepositoryOf(i) ==
  IF op.name = "secondaryResponse" THEN op.request.current
  ELSE out[i].snap.currentRepository

\* C6: a candidate emitted on updatedData carries the occurrence id of its edit
\* session and the repository that was current when it was finalized
C6_Stamped ==
  \A i \in CandidateEmissions("updatedData") :
    /\ out[i].data.occurenceId = SessionOf(i)
    /\ out[i].data.repository = RepositoryOf(i)

\* C7: no synonym is emitted without a valid form; the answer of a secondary
\* lookup produces exactly one emission, of the record it was asked for, with the
\* valid form stamped with the record's repository; the finalization that asked
\* for it emitted nothing for the record
C7_SynonymResolved ==
  /\ \A i \in CandidateEmissions("newData") \cup CandidateEmissions("updatedData") :
       out[i].data.isSynonym => isDefined(out[i].data.validOccurence.kind)
  /\ op.name = "secondaryResponse"
       => /\ Len(out) = 1
          /\ out[1].ev = op.request.ev
          /\ out[1].data.oid = op.request.data.oid
          /\ isDefined(out[1].data.validOccurence.kind)
          /\ out[1].data.validOccurence.repository = out[1].data.repository
  /\ (op.name = "debounced" /\ ~op.dropped /\ op.value.t = "object"
      /\ op.value.isSynonym /\ ~isDefined(op.value.validOccurence.kind))
       => /\ CandidateEmissions("newData") \cup CandidateEmissions("updatedData") = {}
          /\ \E i \in DOMAIN pendingValid : pendingValid[i].data.oid = op.value.oid

\* the valid form of a synonym selected by the user has been fetched and emitted
C7_Witness ==
  /\ op.name = "secondaryResponse"
  /\ op.request.ev = "newData"
  /\ Len(out) = 1
  /\ out[1].data.isSynonym
  /\ out[1].data.validOccurence = [kind |-> "fetched", repository |-> "bdtfx"]
  /\ distinctLast.t = "object"

\* C8: no secondary lookup is issued for a record whose valid form is present
C8_PassThrough ==
  [][Len(pendingValid') > Len(pendingValid)
       => ~isDefined(pendingValid'[Len(pendingValid')].data.validOccurence.kind)]_vars

\* C9: initRepo without a forced repository does not throw and leaves the default
\* repository current if the catalog has it, the first of the catalog otherwise
C9_DefaultResolution ==
  (op.name \in {"level", "allowEmptyRepository", "ngOnInit"}
   /\ _fixedRepository = Undefined)
    => /\ thrown = NoError
       /\ currentRepository =
            IF \E i \in DOMAIN listRepo : listRepo[i] = cfg.defaultRepository
            THEN cfg.defaultRepository ELSE listRepo[1]

\* C10: setRepository, reached through startEditingTaxo, ends without exhausting
\* the stack, at most one level deep, on the repository asked for, on
\* 'otherunknown', on the first of the catalog or with noOneRepositoryError
C10_SetRepositoryTerminates ==
  op.name = "updateData"
    => /\ thrown = NoError
       /\ recDepth <= 1
       /\ IF \E i \in DOMAIN listRepo : listRepo[i] = op.value.repository
          THEN currentRepository = op.value.repository
          ELSE IF _allowEmptyRepository THEN currentRepository = OtherUnknown
          ELSE IF Len(listRepo) > 0 THEN currentRepository = listRepo[1]
          ELSE noOneRepositoryError

\* the condition under which keyDownEnter commits the text of the input
CommitCondition ==
  \/ op.before.currentRepository = OtherUnknown
  \/ (cfg.allowFreeValueIfNoResults /\ op.empty)

\* C11: keyDownEnter outside an edit session, with a text in the input, emits one
\* newData record (repository 'otherunknown', name the raw text, the identifiers
\* and the author null) when the commit condition holds and the text is not blank,
\* newData(null) when it holds and the text is blank, and nothing otherwise
C11_FreeTextNew ==
  (op.name = "keyDownEnter" /\ ~op.before.isEditingData
   /\ op.before.input.t = "string")
    => IF ~CommitCondition THEN out = << >>
       ELSE /\ Len(out) = 1
            /\ out[1].ev = "newData"
            /\ IF RemoveSpaces(op.before.input.s) = << >>
               THEN out[1].data = NullRecord
               ELSE /\ out[1].data.t = "object"
                    /\ out[1].data.repository = OtherUnknown
                    /\ out[1].data.name = op.before.input.s
                    /\ out[1].data.occurenceId = Null
                    /\ out[1].data.idNomen = Null
                    /\ out[1].data.idTaxo = Null
                    /\ out[1].data.author = Null

\* C12: keyDownEnter during an edit session, with a text in the input and the
\* commit condition true, emits an updatedData record carrying the occurrence id
\* of the session and no newData, and leaves the session stopped, whatever the
\* text
C12_FreeTextUpdate ==
  (op.name = "keyDownEnter" /\ op.before.isEditingData
   /\ op.before.input.t = "string" /\ CommitCondition)
    => /\ \E i \in DOMAIN out :
            /\ out[i].ev = "updatedData"
            /\ out[i].data.occurenceId = op.before.editingOccurenceId
       /\ \A i \in DOMAIN out : out[i].ev # "newData"
       /\ ~isEditingData

\* C13: a candidate that is not a synonym, committed through the input when it
\* was also the previous value the pipeline classified, is emitted on newData
\* with the content it had after its first commit
C13_Recommit ==
  (op.name = "debounced" /\ op.value.t = "object" /\ op.dropped
   /\ ~op.before.isEditingData /\ ~op.value.isSynonym)
    => \E i \in DOMAIN out : out[i].ev = "newData" /\ out[i].data = op.value

\* C14: once ngOnDestroy has run, no step changes the state of the component or
\* emits to the host
C14_Released ==
  [][subscribed = "closed"
       => /\ out' = << >>
          /\ UNCHANGED << dataFromRepo, listRepo, currentRepository, input, placeholder,
                          isSearching, isLoading, isEditingData, editingOccurenceId,
                          noOneRepositoryError >>]_vars

RECURSIVE Flatten(_)
Flatten(seqs) == IF seqs = << >> THEN << >> ELSE Head(seqs) \o Flatten(Tail(seqs))

\* C15: level 'idiotaxon' and allowEmptyRepository true bound through their
\* setters and followed by ngOnInit, with the repositories [bdtfx] and the
\* default 'bdtfx', end with the catalog [bdtfx, otherunknown], 'bdtfx' current
\* and selectedRepository emitted exactly once, with 'bdtfx'
C15_Startup ==
  ([i \in DOMAIN history |-> history[i].name]
     = << "level", "allowEmptyRepository", "ngOnInit" >>
   /\ cfg.tbRepositoriesConfig = << Bdtfx >> /\ cfg.defaultRepository = "bdtfx")
    => /\ listRepo = << "bdtfx", OtherUnknown >>
       /\ currentRepository = "bdtfx"
       /\ Flatten([i \in DOMAIN history |-> history[i].selected]) = << "bdtfx" >>

\* C16: when the input changes stop and every lookup answers or fails,
\* isSearching does not stay true
C16_SearchEnds == isSearching ~> ~isSearching

\* a primary lookup is subscribed by switchMap and has not answered
CurrentLookup == stream = "live" /\ \E r \in inflight : r.gen = inner

C18_SwitchFrame ==
  [][op'.name = "repository"
       => /\ currentRepository' = op'.value
          /\ Len(out') = 1
          /\ out'[1].ev = "selectedRepository"
          /\ out'[1].data = op'.value
          /\ IF isEditingData
             THEN UNCHANGED << input, dataFromRepo, isEditingData, editingOccurenceId,
                               lastUsedRepositoryValue, lastPlaceholderValue >>
             ELSE /\ dataFromRepo' = << >>
                  /\ input' = Str(EmptyText)
                  /\ ~isEditingData']_vars

\* the repository was switched during an edit session that has candidates
C18_Witness ==
  /\ op.name = "repository"
  /\ isEditingData
  /\ op.before.currentRepository # currentRepository
  /\ dataFromRepo # << >>

\* the handlers that end an edit session through stopEditingTaxo or
\* cancelEditingTaxo alone
SessionEnders == {"cancelEditingTaxo", "debounced", "primaryResponse", "keyDownEnter"}

\* C19: starting an edit session saves the placeholder and the repository of
\* before the start; the step that ends it leaves isEditingData false,
\* editingOccurenceId null, the buffer empty and the placeholder as saved, the
\* repository as saved when restoreRepositoryValueAfterEditing is true and as it
\* was when it is false; cancelEditingTaxo emits the cancellation first and
\* leaves the input empty
C19_RoundTrip ==
  [][/\ (op'.name = "updateData" /\ ~isEditingData /\ isEditingData')
         => /\ lastPlaceholderValue' = placeholder
            /\ lastUsedRepositoryValue' = currentRepository
     /\ (op'.name \in SessionEnders /\ isEditingData /\ ~isEditingData')
         => /\ editingOccurenceId' = Null
            /\ dataFromRepo' = << >>
            /\ placeholder' = lastPlaceholderValue
            /\ currentRepository' =
                 IF cfg.restoreRepositoryValueAfterEditing
                 THEN lastUsedRepositoryValue ELSE currentRepository
            /\ op'.name = "cancelEditingTaxo"
                 => /\ out'[1].ev = "cancelUpdateData"
                    /\ input' = Str(EmptyText)]_vars

\* how many entries of the catalog are 'otherunknown'
FreeEntries == Cardinality({ i \in DOMAIN listRepo : listRepo[i] = OtherUnknown })

\* C20: after a completed initRepo the catalog is not empty unless
\* noOneRepositoryError is set, and holds 'otherunknown' once when
\* allowEmptyRepository is true and not at all when it is false
C20_Catalog ==
  (op.name \in {"level", "allowEmptyRepository", "ngOnInit", "reset"}
   /\ thrown = NoError)
    => /\ (listRepo # << >> \/ noOneRepositoryError)
       /\ FreeEntries = IF _allowEmptyRepository THEN 1 ELSE 0

\* the user has just typed a text that the pipeline has to look up: it is not
\* blank, it differs from the last value the pipeline classified and a structured
\* repository is selected
TypedForLookup(text) ==
  /\ subscribed = "yes"
  /\ op.name = "type"
  /\ input = Str(text)
  /\ ~IsBlank(text)
  /\ distinctLast # Str(text)
  /\ currentRepository # OtherUnknown

\* C21: whatever lookups failed before, a text typed for lookup, unless the user
\* replaces it, ends as the text of the primary lookup the pipeline has issued
\* last
C21_StaysLive ==
  \A text \in Texts :
    TypedForLookup(text)
      ~> (input # Str(text) \/ \E r \in inflight : r.gen = latest /\ r.text = text)

\* C22: every record of the candidate buffer was returned by a primary lookup
\* issued against the repository that is current, and every candidate emitted on
\* newData or updatedData carries the repository it was looked up in
C22_SameRepository ==
  /\ \A i \in DOMAIN dataFromRepo : dataFromRepo[i].from = currentRepository
  /\ \A i \in CandidateEmissions("newData") \cup CandidateEmissions("updatedData") :
       out[i].data.repository = out[i].data.from

====
